---- MODULE Spec2Model ----
(***************************************************************************)
(* Model of src/geometry/spline.h: the single-channel splines              *)
(* Spline<T>, Spline<Quat>, Spline<bool> (each a std::map<float, V>) and   *)
(* the multi-channel composition Splines<Quat, bool>.                      *)
(*                                                                         *)
(* Times are modelled by integers: the code only compares times with <     *)
(* and, in Spline<Quat>::at, forms the quotient                            *)
(* (time - k1) / (k2 - k1), which is kept as a numerator/denominator pair. *)
(* Times are ordered numbers; a NaN time, which std::map cannot order, is  *)
(* not among them.                                                         *)
(* The three single-channel splines are driven by the same call sequence   *)
(* (specification Spec); the multi-channel spline is driven by             *)
(* specification SpecMulti, all of them together by SpecAll, and the       *)
(* generic spline with numeric values and its cubic at() by SpecCubic.     *)
(***************************************************************************)
EXTENDS Integers, FiniteSets, Sequences

VARIABLES control_points, Quat_values, bool_values, splines, call, ret, mret

vars == <<control_points, Quat_values, bool_values, splines, call, ret, mret>>

(* ---------------------------------------------------------------------- *)
(* Bounds and value domains                                               *)
(* ---------------------------------------------------------------------- *)

\* Knot times that set() is called with are 1..MaxTime.
MaxTime == 3

Times == 1..MaxTime

\* Times used for at/has/erase/crop: also below and above every knot time.
QueryTimes == 0..(MaxTime + 1)

\* Values of the generic value type T.
TValues == {"v0", "v1"}

\* Knot times of the generic spline with numeric values are the multiples
\* 0, Step, 2 * Step, 3 * Step; it is queried at every time from one before
\* the first to one after the last of them.
Step == 3

CubicTimes == {0, Step, 2 * Step, 3 * Step}

CubicQueryTimes == (0 - 1)..(3 * Step + 1)

\* Numeric values of the generic value type T are 0..MaxValue.
MaxValue == 4

CubicValues == 0..MaxValue

\* A rotation is written as the point num/den of the way along the arc from
\* one named rotation to another; Rot(n) is the named rotation n itself.
Rot(n) == [from |-> n, to |-> n, num |-> 0, den |-> 1]

\* Quat() is the default-constructed quaternion.
QuatDefault == Rot("qI")

Quats == {QuatDefault, Rot("qa")}

\* Stands for a value that is not there (no argument, nothing returned).
Void == "void"

(* ---------------------------------------------------------------------- *)
(* std::map<float, V> and its iterators. An iterator is the key it points *)
(* at; end() is a position after every key.                               *)
(* ---------------------------------------------------------------------- *)

EmptyMap == [k \in {} |-> Void]

End == MaxTime + 3 * Step + 2

\* The position std::prev(begin()) would name: it holds no element, and
\* dereferencing it (second) is undefined.
Undefined == 0 - 1

Min(S) == CHOOSE x \in S : \A y \in S : x <= y

Max(S) == CHOOSE x \in S : \A y \in S : y <= x

begin(m) == IF DOMAIN m = {} THEN End ELSE Min(DOMAIN m)

size(m) == Cardinality(DOMAIN m)

empty(m) == DOMAIN m = {}

count(m, t) == IF t \in DOMAIN m THEN 1 ELSE 0

\* first element whose key is not less than t
lower_bound(m, t) ==
    IF \E k \in DOMAIN m : ~(k < t)
    THEN Min({k \in DOMAIN m : ~(k < t)})
    ELSE End

\* Variant: the first element whose key is not less than t (lower_bound).
upper_bound_ge(m, t) ==
    IF \E k \in DOMAIN m : ~(k < t)
    THEN Min({k \in DOMAIN m : ~(k < t)})
    ELSE End

\* first element whose key is greater than t
upper_bound(m, t) ==
    IF \E k \in DOMAIN m : t < k
    THEN Min({k \in DOMAIN m : t < k})
    ELSE End

\* std::prev(it): the element before it; there is none before begin().
prev(m, it) ==
    IF \E k \in DOMAIN m : k < it
    THEN Max({k \in DOMAIN m : k < it})
    ELSE Undefined

\* it->second
second(m, it) == m[it]

\* m[t] = v
assign(m, t, v) == [k \in DOMAIN m \cup {t} |-> IF k = t THEN v ELSE m[k]]

\* m.erase(t)
erase_key(m, t) == [k \in DOMAIN m \ {t} |-> m[k]]

\* m.erase(first, last)
erase_range(m, first, last) ==
    [k \in {x \in DOMAIN m : ~(first <= x /\ x < last)} |-> m[k]]

\* for (auto& e : m) ret.insert(e.first)
insert_keys(m) == {k : k \in DOMAIN m}

\* at(time) on the knots m gets as far as std::prev(k2) with k2 the first
\* knot: there is no element before it, and what at() then returns is
\* undefined.
at_undefined(m, time) ==
    /\ ~empty(m)
    /\ size(m) # 1
    /\ ~(begin(m) > time)
    /\ upper_bound(m, time) # End
    /\ prev(m, upper_bound(m, time)) = Undefined

(* ---------------------------------------------------------------------- *)
(* slerp of lib/mathlib.h: spherical linear interpolation at parameter    *)
(* num/den. At parameter 0, and between identical rotations, the result   *)
(* is the first rotation.                                                 *)
(* ---------------------------------------------------------------------- *)

slerp(q0, q1, num, den) ==
    IF q0 = q1 \/ num = 0 THEN q0
    ELSE [from |-> q0.from, to |-> q1.from, num |-> num, den |-> den]

(* ---------------------------------------------------------------------- *)
(* Spline<T> (generic)                                                    *)
(* ---------------------------------------------------------------------- *)

\* Variant: an existing knot keeps its value (std::map::insert).
Spline_set_insert(cp, time, value) ==
    IF time \in DOMAIN cp THEN cp ELSE assign(cp, time, value)

Spline_set(cp, time, value) == assign(cp, time, value)

Spline_erase(cp, time) == erase_key(cp, time)

Spline_has(cp, t) == count(cp, t) # 0

\* Variant: the negation is missing.
Spline_any_neg(cp) == empty(cp)

Spline_any(cp) == ~empty(cp)

Spline_clear(cp) == EmptyMap

\* Variant: the knot at exactly t is kept (upper_bound for lower_bound).
Spline_crop_upper(cp, t) == erase_range(cp, upper_bound(cp, t), End)

Spline_crop(cp, t) == erase_range(cp, lower_bound(cp, t), End)

Spline_keys(cp) == insert_keys(cp)

(* ---------------------------------------------------------------------- *)
(* Spline<T>::at and Spline<T>::cubic_unit_spline, which spline.h only    *)
(* declares. Values are integers, results exact fractions num/den with    *)
(* den > 0.                                                               *)
(* ---------------------------------------------------------------------- *)

Rat(n, d) == [num |-> n, den |-> d]

RatEq(x, y) == x.num * y.den = y.num * x.den

RatLeq(x, y) == x.num * y.den <= y.num * x.den

\* How the tangent is taken at a knot with no neighbour on one side.
TangentRules == {"one_sided", "zero"}

\* Variant: the basis function of position0 is 2u^3 - 3u^2 + u.
cubic_unit_spline_basis(time, position0, position1, tangent0, tangent1) ==
    LET a == time.num
        d == time.den
        h00 == 2 * a * a * a - 3 * a * a * d + a * d * d
        h10 == a * a * a - 2 * a * a * d + a * d * d
        h01 == 3 * a * a * d - 2 * a * a * a
        h11 == a * a * a - a * a * d
    IN Rat((h00 * position0 + h01 * position1) * tangent0.den * tangent1.den
               + h10 * tangent0.num * tangent1.den
               + h11 * tangent1.num * tangent0.den,
           d * d * d * tangent0.den * tangent1.den)

\* The Hermite cubic h00 p0 + h10 m0 + h01 p1 + h11 m1 at u = time, with
\* h00 = 2u^3 - 3u^2 + 1, h10 = u^3 - 2u^2 + u, h01 = -2u^3 + 3u^2,
\* h11 = u^3 - u^2.
cubic_unit_spline(time, position0, position1, tangent0, tangent1) ==
    LET a == time.num
        d == time.den
        h00 == 2 * a * a * a - 3 * a * a * d + d * d * d
        h10 == a * a * a - 2 * a * a * d + a * d * d
        h01 == 3 * a * a * d - 2 * a * a * a
        h11 == a * a * a - a * a * d
    IN Rat((h00 * position0 + h01 * position1) * tangent0.den * tangent1.den
               + h10 * tangent0.num * tangent1.den
               + h11 * tangent1.num * tangent0.den,
           d * d * d * tangent0.den * tangent1.den)

\* The tangent at knot k of the interval [k1, k2], over the unit interval:
\* the difference of k's neighbours over their distance in time; with a
\* neighbour missing, the difference of the interval's ends or zero.
tangent(cp, k, k1, k2, rule) ==
    LET before == {j \in DOMAIN cp : j < k}
        after == {j \in DOMAIN cp : j > k}
    IN IF before # {} /\ after # {}
       THEN Rat((cp[Min(after)] - cp[Max(before)]) * (k2 - k1),
                Min(after) - Max(before))
       ELSE IF rule = "zero" THEN Rat(0, 1)
       ELSE Rat(cp[k2] - cp[k1], 1)

\* Spline<T>::at: the boundary cases, then the cubic over the bracketing
\* pair k1.time < time <= k2.time.
Spline_at(cp, time, rule) ==
    IF empty(cp) THEN Rat(0, 1)
    ELSE IF size(cp) = 1 THEN Rat(cp[begin(cp)], 1)
    ELSE IF time <= begin(cp) THEN Rat(cp[begin(cp)], 1)
    ELSE IF time >= Max(DOMAIN cp) THEN Rat(cp[Max(DOMAIN cp)], 1)
    ELSE LET k2 == lower_bound(cp, time)
             k1 == prev(cp, k2)
         IN cubic_unit_spline(Rat(time - k1, k2 - k1), cp[k1], cp[k2],
                              tangent(cp, k1, k1, k2, rule),
                              tangent(cp, k2, k1, k2, rule))

(* ---------------------------------------------------------------------- *)
(* Spline<Quat>                                                           *)
(* ---------------------------------------------------------------------- *)

\* Variant: when no knot lies after time, the first knot is returned.
Quat_at_first(values, time) ==
    IF empty(values) THEN QuatDefault
    ELSE IF size(values) = 1 THEN second(values, begin(values))
    ELSE IF begin(values) > time THEN second(values, begin(values))
    ELSE LET k2 == upper_bound(values, time) IN
         IF k2 = End THEN second(values, begin(values))
         ELSE LET k1 == prev(values, k2) IN
              slerp(second(values, k1), second(values, k2), time - k1, k2 - k1)

\* Variant: the two knots are handed to slerp in the opposite order.
Quat_at_swapped(values, time) ==
    IF empty(values) THEN QuatDefault
    ELSE IF size(values) = 1 THEN second(values, begin(values))
    ELSE IF begin(values) > time THEN second(values, begin(values))
    ELSE LET k2 == upper_bound(values, time) IN
         IF k2 = End THEN second(values, prev(values, End))
         ELSE LET k1 == prev(values, k2) IN
              slerp(second(values, k2), second(values, k1), time - k1, k2 - k1)

Quat_at(values, time) ==
    IF empty(values) THEN QuatDefault
    ELSE IF size(values) = 1 THEN second(values, begin(values))
    ELSE IF begin(values) > time THEN second(values, begin(values))
    ELSE LET k2 == upper_bound(values, time) IN
         IF k2 = End THEN second(values, prev(values, End))
         ELSE LET k1 == prev(values, k2) IN
              slerp(second(values, k1), second(values, k2), time - k1, k2 - k1)

Quat_set(values, time, value) == assign(values, time, value)

\* Variant: the knot closest to time is removed, as the comment on
\* Spline::erase words it.
Quat_erase_closest(values, time) ==
    IF empty(values) THEN values
    ELSE LET dist(k) == IF k < time THEN time - k ELSE k - time
             near == {k \in DOMAIN values :
                         \A j \in DOMAIN values : dist(k) <= dist(j)}
         IN erase_key(values, Min(near))

Quat_erase(values, time) == erase_key(values, time)

Quat_keys(values) == insert_keys(values)

Quat_has(values, t) == count(values, t) # 0

Quat_any(values) == ~empty(values)

Quat_clear(values) == EmptyMap

Quat_crop(values, t) == erase_range(values, lower_bound(values, t), End)

(* ---------------------------------------------------------------------- *)
(* Spline<bool>                                                           *)
(* ---------------------------------------------------------------------- *)

\* Variant: a query before the first knot returns the default value.
bool_at_nohold(values, time) ==
    IF empty(values) THEN FALSE
    ELSE IF size(values) = 1 THEN second(values, begin(values))
    ELSE IF begin(values) > time THEN FALSE
    ELSE LET k2 == upper_bound(values, time) IN
         IF k2 = End THEN second(values, prev(values, End))
         ELSE second(values, prev(values, k2))

\* Variant: the knot after time is returned instead of the one before it.
bool_at_next(values, time) ==
    IF empty(values) THEN FALSE
    ELSE IF size(values) = 1 THEN second(values, begin(values))
    ELSE IF begin(values) > time THEN second(values, begin(values))
    ELSE LET k2 == upper_bound(values, time) IN
         IF k2 = End THEN second(values, prev(values, End))
         ELSE second(values, k2)

\* Variant: a spline with one knot is treated like one with none.
bool_at_small(values, time) ==
    IF size(values) <= 1 THEN FALSE
    ELSE IF begin(values) > time THEN second(values, begin(values))
    ELSE LET k2 == upper_bound(values, time) IN
         IF k2 = End THEN second(values, prev(values, End))
         ELSE second(values, prev(values, k2))

bool_at(values, time) ==
    IF empty(values) THEN FALSE
    ELSE IF size(values) = 1 THEN second(values, begin(values))
    ELSE IF begin(values) > time THEN second(values, begin(values))
    ELSE LET k2 == upper_bound(values, time) IN
         IF k2 = End THEN second(values, prev(values, End))
         ELSE second(values, prev(values, k2))

bool_set(values, time, value) == assign(values, time, value)

\* Variant: the first knot at or after time is removed
\* (erase(lower_bound(time))).
bool_erase_lower(values, time) ==
    IF lower_bound(values, time) = End THEN values
    ELSE erase_key(values, lower_bound(values, time))

bool_erase(values, time) == erase_key(values, time)

bool_keys(values) == insert_keys(values)

bool_has(values, t) == count(values, t) # 0

bool_any(values) == ~empty(values)

bool_clear(values) == EmptyMap

\* Variant: the knot at exactly t is kept (upper_bound for lower_bound).
bool_crop_upper(values, t) == erase_range(values, upper_bound(values, t), End)

bool_crop(values, t) == erase_range(values, lower_bound(values, t), End)

(* ---------------------------------------------------------------------- *)
(* Splines<T> (one channel, here T = bool) and Splines<T, Ts...> (here    *)
(* T = Quat, Ts = bool): head is a Spline<T>, tail a Splines<Ts...>.      *)
(* ---------------------------------------------------------------------- *)

Splines1_set(s, t, arg) == [head |-> bool_set(s.head, t, arg)]

Splines1_erase(s, t) == [head |-> bool_erase(s.head, t)]

Splines1_any(s) == bool_any(s.head)

Splines1_has(s, t) == bool_has(s.head, t)

Splines1_crop(s, t) == [head |-> bool_crop(s.head, t)]

Splines1_clear(s) == [head |-> bool_clear(s.head)]

Splines1_keys(s) == bool_keys(s.head)

Splines1_at(s, t) == <<bool_at(s.head, t)>>

\* Variant: the tail channels are not set.
Splines_set_head(s, t, arg, args) ==
    [head |-> Quat_set(s.head, t, arg), tail |-> s.tail]

\* Variant: the head channel is not set.
Splines_set_tail(s, t, arg, args) ==
    [head |-> s.head, tail |-> Splines1_set(s.tail, t, args)]

Splines_set(s, t, arg, args) ==
    [head |-> Quat_set(s.head, t, arg), tail |-> Splines1_set(s.tail, t, args)]

Splines_erase(s, t) ==
    [head |-> Quat_erase(s.head, t), tail |-> Splines1_erase(s.tail, t)]

Splines_any(s) == Quat_any(s.head) \/ Splines1_any(s.tail)

Splines_has(s, t) == Quat_has(s.head, t) \/ Splines1_has(s.tail, t)

Splines_clear(s) ==
    [head |-> Quat_clear(s.head), tail |-> Splines1_clear(s.tail)]

\* Variant: the tail channels are not cropped.
Splines_crop_head(s, t) ==
    [head |-> Quat_crop(s.head, t), tail |-> s.tail]

Splines_crop(s, t) ==
    [head |-> Quat_crop(s.head, t), tail |-> Splines1_crop(s.tail, t)]

\* Variant: the head's keys are removed from the tail's instead of added.
Splines_keys_removed(s) ==
    LET first == Quat_keys(s.head)
        rest == Splines1_keys(s.tail)
    IN rest \ first

Splines_keys(s) ==
    LET first == Quat_keys(s.head)
        rest == Splines1_keys(s.tail)
    IN rest \cup first

Splines_at(s, t) == <<Quat_at(s.head, t)>> \o Splines1_at(s.tail, t)

(* ---------------------------------------------------------------------- *)
(* State machine. call records the last call and its arguments; ret holds  *)
(* what the last call on the single-channel splines returned, mret what    *)
(* the last call on the multi-channel spline returned.                     *)
(* ---------------------------------------------------------------------- *)

NoArgs == [v |-> Void, q |-> Rot(Void), b |-> FALSE]

NoRet ==
    [at |-> [q |-> Rot(Void), b |-> FALSE, v |-> Rat(0, 1), rule |-> Void],
     has |-> [v |-> FALSE, q |-> FALSE, b |-> FALSE],
     any |-> [v |-> FALSE, q |-> FALSE, b |-> FALSE],
     keys |-> [v |-> {}, q |-> {}, b |-> {}]]

NoMRet == [at |-> <<Rot(Void), FALSE>>, has |-> FALSE, any |-> FALSE, keys |-> {}]

Init ==
    /\ control_points = EmptyMap
    /\ Quat_values = EmptyMap
    /\ bool_values = EmptyMap
    /\ splines = [head |-> EmptyMap, tail |-> [head |-> EmptyMap]]
    /\ call = [op |-> "new", time |-> 0, args |-> NoArgs]
    /\ ret = NoRet
    /\ mret = NoMRet

single == <<control_points, Quat_values, bool_values>>

\* The same set(time, value) on the three single-channel splines.
Set(t, v, q, b) ==
    /\ control_points' = Spline_set(control_points, t, v)
    /\ Quat_values' = Quat_set(Quat_values, t, q)
    /\ bool_values' = bool_set(bool_values, t, b)
    /\ call' = [op |-> "set", time |-> t, args |-> [v |-> v, q |-> q, b |-> b]]
    /\ ret' = NoRet
    /\ UNCHANGED <<splines, mret>>

Erase(t) ==
    /\ control_points' = Spline_erase(control_points, t)
    /\ Quat_values' = Quat_erase(Quat_values, t)
    /\ bool_values' = bool_erase(bool_values, t)
    /\ call' = [op |-> "erase", time |-> t, args |-> NoArgs]
    /\ ret' = NoRet
    /\ UNCHANGED <<splines, mret>>

Clear ==
    /\ control_points' = Spline_clear(control_points)
    /\ Quat_values' = Quat_clear(Quat_values)
    /\ bool_values' = bool_clear(bool_values)
    /\ call' = [op |-> "clear", time |-> 0, args |-> NoArgs]
    /\ ret' = NoRet
    /\ UNCHANGED <<splines, mret>>

Crop(t) ==
    /\ control_points' = Spline_crop(control_points, t)
    /\ Quat_values' = Quat_crop(Quat_values, t)
    /\ bool_values' = bool_crop(bool_values, t)
    /\ call' = [op |-> "crop", time |-> t, args |-> NoArgs]
    /\ ret' = NoRet
    /\ UNCHANGED <<splines, mret>>

\* at(time) on Spline<Quat> and Spline<bool>. Where the lookup is undefined
\* any value may come back.
At(t) ==
    /\ call' = [op |-> "at", time |-> t, args |-> NoArgs]
    /\ \E q \in (IF at_undefined(Quat_values, t) THEN Quats
                  ELSE {Quat_at(Quat_values, t)}),
          b \in (IF at_undefined(bool_values, t) THEN BOOLEAN
                  ELSE {bool_at(bool_values, t)}) :
           ret' = [NoRet EXCEPT !.at.q = q, !.at.b = b]
    /\ UNCHANGED <<single, splines, mret>>

Has(t) ==
    /\ call' = [op |-> "has", time |-> t, args |-> NoArgs]
    /\ ret' = [NoRet EXCEPT !.has = [v |-> Spline_has(control_points, t),
                                     q |-> Quat_has(Quat_values, t),
                                     b |-> bool_has(bool_values, t)]]
    /\ UNCHANGED <<single, splines, mret>>

Any ==
    /\ call' = [op |-> "any", time |-> 0, args |-> NoArgs]
    /\ ret' = [NoRet EXCEPT !.any = [v |-> Spline_any(control_points),
                                     q |-> Quat_any(Quat_values),
                                     b |-> bool_any(bool_values)]]
    /\ UNCHANGED <<single, splines, mret>>

Keys ==
    /\ call' = [op |-> "keys", time |-> 0, args |-> NoArgs]
    /\ ret' = [NoRet EXCEPT !.keys = [v |-> Spline_keys(control_points),
                                      q |-> Quat_keys(Quat_values),
                                      b |-> bool_keys(bool_values)]]
    /\ UNCHANGED <<single, splines, mret>>

Next ==
    \/ \E t \in Times, v \in TValues, q \in Quats, b \in BOOLEAN : Set(t, v, q, b)
    \/ \E t \in QueryTimes : Erase(t)
    \/ Clear
    \/ \E t \in QueryTimes : Crop(t)
    \/ \E t \in QueryTimes : At(t)
    \/ \E t \in QueryTimes : Has(t)
    \/ Any
    \/ Keys

Spec == Init /\ [][Next]_vars

(* ---------------------------------------------------------------------- *)
(* The multi-channel spline Splines<Quat, bool>.                          *)
(* ---------------------------------------------------------------------- *)

MSet(t, q, b) ==
    /\ splines' = Splines_set(splines, t, q, b)
    /\ call' = [op |-> "set", time |-> t, args |-> [v |-> Void, q |-> q, b |-> b]]
    /\ mret' = NoMRet
    /\ UNCHANGED <<single, ret>>

MErase(t) ==
    /\ splines' = Splines_erase(splines, t)
    /\ call' = [op |-> "erase", time |-> t, args |-> NoArgs]
    /\ mret' = NoMRet
    /\ UNCHANGED <<single, ret>>

MClear ==
    /\ splines' = Splines_clear(splines)
    /\ call' = [op |-> "clear", time |-> 0, args |-> NoArgs]
    /\ mret' = NoMRet
    /\ UNCHANGED <<single, ret>>

MCrop(t) ==
    /\ splines' = Splines_crop(splines, t)
    /\ call' = [op |-> "crop", time |-> t, args |-> NoArgs]
    /\ mret' = NoMRet
    /\ UNCHANGED <<single, ret>>

MAt(t) ==
    /\ call' = [op |-> "at", time |-> t, args |-> NoArgs]
    /\ mret' = [NoMRet EXCEPT !.at = Splines_at(splines, t)]
    /\ UNCHANGED <<single, ret, splines>>

MHas(t) ==
    /\ call' = [op |-> "has", time |-> t, args |-> NoArgs]
    /\ mret' = [NoMRet EXCEPT !.has = Splines_has(splines, t)]
    /\ UNCHANGED <<single, ret, splines>>

MAny ==
    /\ call' = [op |-> "any", time |-> 0, args |-> NoArgs]
    /\ mret' = [NoMRet EXCEPT !.any = Splines_any(splines)]
    /\ UNCHANGED <<single, ret, splines>>

MKeys ==
    /\ call' = [op |-> "keys", time |-> 0, args |-> NoArgs]
    /\ mret' = [NoMRet EXCEPT !.keys = Splines_keys(splines)]
    /\ UNCHANGED <<single, ret, splines>>

NextMulti ==
    \/ \E t \in Times, q \in Quats, b \in BOOLEAN : MSet(t, q, b)
    \/ \E t \in QueryTimes : MErase(t)
    \/ MClear
    \/ \E t \in QueryTimes : MCrop(t)
    \/ \E t \in QueryTimes : MAt(t)
    \/ \E t \in QueryTimes : MHas(t)
    \/ MAny
    \/ MKeys

SpecMulti == Init /\ [][NextMulti]_vars

(* ---------------------------------------------------------------------- *)
(* The single-channel splines and the multi-channel spline driven by the  *)
(* same call sequence: every call is made on all of them.                 *)
(* ---------------------------------------------------------------------- *)

AllSet(t, v, q, b) ==
    /\ control_points' = Spline_set(control_points, t, v)
    /\ Quat_values' = Quat_set(Quat_values, t, q)
    /\ bool_values' = bool_set(bool_values, t, b)
    /\ splines' = Splines_set(splines, t, q, b)
    /\ call' = [op |-> "set", time |-> t, args |-> [v |-> v, q |-> q, b |-> b]]
    /\ ret' = NoRet
    /\ mret' = NoMRet

AllErase(t) ==
    /\ control_points' = Spline_erase(control_points, t)
    /\ Quat_values' = Quat_erase(Quat_values, t)
    /\ bool_values' = bool_erase(bool_values, t)
    /\ splines' = Splines_erase(splines, t)
    /\ call' = [op |-> "erase", time |-> t, args |-> NoArgs]
    /\ ret' = NoRet
    /\ mret' = NoMRet

AllClear ==
    /\ control_points' = Spline_clear(control_points)
    /\ Quat_values' = Quat_clear(Quat_values)
    /\ bool_values' = bool_clear(bool_values)
    /\ splines' = Splines_clear(splines)
    /\ call' = [op |-> "clear", time |-> 0, args |-> NoArgs]
    /\ ret' = NoRet
    /\ mret' = NoMRet

AllCrop(t) ==
    /\ control_points' = Spline_crop(control_points, t)
    /\ Quat_values' = Quat_crop(Quat_values, t)
    /\ bool_values' = bool_crop(bool_values, t)
    /\ splines' = Splines_crop(splines, t)
    /\ call' = [op |-> "crop", time |-> t, args |-> NoArgs]
    /\ ret' = NoRet
    /\ mret' = NoMRet

\* at() is a const member function: it has no access to change the knots.
AllAt(t) ==
    /\ call' = [op |-> "at", time |-> t, args |-> NoArgs]
    /\ \E q \in (IF at_undefined(Quat_values, t) THEN Quats
                  ELSE {Quat_at(Quat_values, t)}),
          b \in (IF at_undefined(bool_values, t) THEN BOOLEAN
                  ELSE {bool_at(bool_values, t)}) :
           ret' = [NoRet EXCEPT !.at.q = q, !.at.b = b]
    /\ \E qb \in (IF at_undefined(splines.head, t)
                       \/ at_undefined(splines.tail.head, t)
                   THEN {<<q, b>> : q \in Quats, b \in BOOLEAN}
                   ELSE {Splines_at(splines, t)}) :
           mret' = [NoMRet EXCEPT !.at = qb]
    /\ UNCHANGED <<single, splines>>

\* Variant: has() looks the time up with operator[], which puts a default
\* knot there when there is none.
AllHas_inserts(t) ==
    /\ call' = [op |-> "has", time |-> t, args |-> NoArgs]
    /\ ret' = [NoRet EXCEPT !.has = [v |-> Spline_has(control_points, t),
                                     q |-> Quat_has(Quat_values, t),
                                     b |-> bool_has(bool_values, t)]]
    /\ mret' = [NoMRet EXCEPT !.has = Splines_has(splines, t)]
    /\ bool_values' = IF t \in DOMAIN bool_values THEN bool_values
                      ELSE assign(bool_values, t, FALSE)
    /\ UNCHANGED <<control_points, Quat_values, splines>>

\* has() is a const member function.
AllHas(t) ==
    /\ call' = [op |-> "has", time |-> t, args |-> NoArgs]
    /\ ret' = [NoRet EXCEPT !.has = [v |-> Spline_has(control_points, t),
                                     q |-> Quat_has(Quat_values, t),
                                     b |-> bool_has(bool_values, t)]]
    /\ mret' = [NoMRet EXCEPT !.has = Splines_has(splines, t)]
    /\ UNCHANGED <<single, splines>>

\* any() is a const member function.
AllAny ==
    /\ call' = [op |-> "any", time |-> 0, args |-> NoArgs]
    /\ ret' = [NoRet EXCEPT !.any = [v |-> Spline_any(control_points),
                                     q |-> Quat_any(Quat_values),
                                     b |-> bool_any(bool_values)]]
    /\ mret' = [NoMRet EXCEPT !.any = Splines_any(splines)]
    /\ UNCHANGED <<single, splines>>

\* keys() is a const member function.
AllKeys ==
    /\ call' = [op |-> "keys", time |-> 0, args |-> NoArgs]
    /\ ret' = [NoRet EXCEPT !.keys = [v |-> Spline_keys(control_points),
                                      q |-> Quat_keys(Quat_values),
                                      b |-> bool_keys(bool_values)]]
    /\ mret' = [NoMRet EXCEPT !.keys = Splines_keys(splines)]
    /\ UNCHANGED <<single, splines>>

\* The value set on the generic spline goes with the one set on the bool
\* spline, which keeps the number of states down.
NextAll ==
    \/ \E t \in Times, q \in Quats, b \in BOOLEAN :
           AllSet(t, IF b THEN "v1" ELSE "v0", q, b)
    \/ \E t \in QueryTimes : AllErase(t)
    \/ AllClear
    \/ \E t \in QueryTimes : AllCrop(t)
    \/ \E t \in QueryTimes : AllAt(t)
    \/ \E t \in QueryTimes : AllHas(t)
    \/ AllAny
    \/ AllKeys

SpecAll == Init /\ [][NextAll]_vars

(* ---------------------------------------------------------------------- *)
(* The generic spline Spline<T> with numeric values.                      *)
(* ---------------------------------------------------------------------- *)

rest == <<Quat_values, bool_values, splines, mret>>

CubicSet(t, v) ==
    /\ control_points' = Spline_set(control_points, t, v)
    /\ call' = [op |-> "set", time |-> t, args |-> NoArgs]
    /\ ret' = NoRet
    /\ UNCHANGED rest

CubicErase(t) ==
    /\ control_points' = Spline_erase(control_points, t)
    /\ call' = [op |-> "erase", time |-> t, args |-> NoArgs]
    /\ ret' = NoRet
    /\ UNCHANGED rest

CubicAt(t) ==
    /\ call' = [op |-> "at", time |-> t, args |-> NoArgs]
    /\ \E rule \in TangentRules :
           ret' = [NoRet EXCEPT !.at.v = Spline_at(control_points, t, rule),
                                !.at.rule = rule]
    /\ UNCHANGED <<control_points, rest>>

NextCubic ==
    \/ \E t \in CubicTimes, v \in CubicValues : CubicSet(t, v)
    \/ \E t \in CubicTimes : CubicErase(t)
    \/ \E t \in CubicQueryTimes : CubicAt(t)

SpecCubic == Init /\ [][NextCubic]_vars

(* ---------------------------------------------------------------------- *)
(* Properties of at() on Spline<Quat> and Spline<bool>                    *)
(* ---------------------------------------------------------------------- *)

FirstKey(m) == Min(DOMAIN m)

LastKey(m) == Max(DOMAIN m)

\* The knot times in increasing order are k1 < k2 next to each other.
Adjacent(m, k1, k2) ==
    /\ k1 \in DOMAIN m
    /\ k2 \in DOMAIN m
    /\ k1 < k2
    /\ ~ \E k \in DOMAIN m : k1 < k /\ k < k2

\* C1. Hold-first: with at least one knot, at(t) for a time t less than or
\* equal to the smallest knot time returns the value stored at the smallest
\* knot time, on Spline<bool> and on Spline<Quat>.
HoldFirst ==
    call.op = "at" =>
        /\ (DOMAIN bool_values # {} /\ call.time <= FirstKey(bool_values))
               => ret.at.b = bool_values[FirstKey(bool_values)]
        /\ (DOMAIN Quat_values # {} /\ call.time <= FirstKey(Quat_values))
               => ret.at.q = Quat_values[FirstKey(Quat_values)]

\* at() was called before the first of several knots, whose bool value is
\* not the default.
HoldFirstWitness ==
    /\ call.op = "at"
    /\ Cardinality(DOMAIN bool_values) >= 2
    /\ call.time < FirstKey(bool_values)
    /\ bool_values[FirstKey(bool_values)] = TRUE
    /\ ret.at.b = TRUE
    /\ ret.at.q = Quat_values[FirstKey(Quat_values)]

\* C2. Hold-last: with at least one knot, at(t) for a time t greater than or
\* equal to the largest knot time returns the value stored at the largest
\* knot time, on Spline<bool> and on Spline<Quat>.
HoldLast ==
    call.op = "at" =>
        /\ (DOMAIN bool_values # {} /\ call.time >= LastKey(bool_values))
               => ret.at.b = bool_values[LastKey(bool_values)]
        /\ (DOMAIN Quat_values # {} /\ call.time >= LastKey(Quat_values))
               => ret.at.q = Quat_values[LastKey(Quat_values)]

\* at() was called exactly at the last of several knots whose values differ
\* from the first knot's.
HoldLastWitness ==
    /\ call.op = "at"
    /\ Cardinality(DOMAIN Quat_values) >= 2
    /\ call.time = LastKey(Quat_values)
    /\ Quat_values[LastKey(Quat_values)] # Quat_values[FirstKey(Quat_values)]
    /\ bool_values[LastKey(bool_values)] # bool_values[FirstKey(bool_values)]
    /\ ret.at.q = Quat_values[LastKey(Quat_values)]
    /\ ret.at.b = bool_values[LastKey(bool_values)]

\* C3. Step policy on two knots: a bool spline holding exactly the knots
\* (a, x) and (b, y), a < b, returns x from at(t) for every t < b and y for
\* every t >= b; with 1 -> true and 3 -> false, at(0), at(1), at(2) are true
\* and at(3) and every later time are false.
StepTwoKnots ==
    (call.op = "at" /\ Cardinality(DOMAIN bool_values) = 2) =>
        LET a == FirstKey(bool_values)
            b == LastKey(bool_values)
        IN /\ call.time < b => ret.at.b = bool_values[a]
           /\ call.time >= b => ret.at.b = bool_values[b]
           /\ (a = 1 /\ b = 3 /\ bool_values[a] = TRUE /\ bool_values[b] = FALSE)
                  => ret.at.b = (call.time \in {0, 1, 2})

\* The knots are 1 -> true and 3 -> false and at(2) returned true.
StepTwoKnotsWitness ==
    /\ call.op = "at"
    /\ DOMAIN bool_values = {1, 3}
    /\ bool_values[1] = TRUE
    /\ bool_values[3] = FALSE
    /\ call.time = 2
    /\ ret.at.b = TRUE

\* C4 as stated. With at least two knots and a query time strictly between
\* the smallest and the largest knot time, at(time) interpolates between the
\* adjacent knots k1, k2 with k1.time < time <= k2.time; the step policy
\* returns k1.value, so a query at an interior knot's time returns the value
\* of the knot before it.
BracketingPairLeftOpen ==
    (/\ call.op = "at"
     /\ Cardinality(DOMAIN bool_values) >= 2
     /\ FirstKey(bool_values) < call.time
     /\ call.time < LastKey(bool_values)) =>
        \A k1, k2 \in Times :
            (/\ Adjacent(bool_values, k1, k2)
             /\ k1 < call.time
             /\ call.time <= k2) =>
                /\ ret.at.b = bool_values[k1]
                /\ ret.at.q = slerp(Quat_values[k1], Quat_values[k2],
                                 call.time - k1, k2 - k1)

\* C4 as amended. With at least two knots and a query time strictly between
\* the smallest and the largest knot time, at(time) interpolates between the
\* adjacent knots k1, k2 with k1.time <= time < k2.time; the step policy
\* returns k1.value, so a query at an interior knot's time returns that
\* knot's own value.
BracketingPair ==
    (/\ call.op = "at"
     /\ Cardinality(DOMAIN bool_values) >= 2
     /\ FirstKey(bool_values) < call.time
     /\ call.time < LastKey(bool_values)) =>
        \A k1, k2 \in Times :
            (/\ Adjacent(bool_values, k1, k2)
             /\ k1 <= call.time
             /\ call.time < k2) =>
                /\ ret.at.b = bool_values[k1]
                /\ ret.at.q = slerp(Quat_values[k1], Quat_values[k2],
                                 call.time - k1, k2 - k1)

\* at() was called at the time of an interior knot whose values differ from
\* those of the knot before it, and returned the interior knot's own values.
BracketingPairWitness ==
    /\ call.op = "at"
    /\ DOMAIN bool_values = {1, 2, 3}
    /\ call.time = 2
    /\ bool_values[1] # bool_values[2]
    /\ Quat_values[1] # Quat_values[2]
    /\ Quat_values[2] # Quat_values[3]
    /\ ret.at.b = bool_values[2]
    /\ ret.at.q = Quat_values[2]

(* ---------------------------------------------------------------------- *)
(* Properties of the mutating operations of the single-channel splines    *)
(* ---------------------------------------------------------------------- *)

\* The map m with only the knots whose time is in S.
Restrict(m, S) == [k \in DOMAIN m \cap S |-> m[k]]

\* m2 is m1 with exactly the knots at times >= t removed.
Cropped(m1, m2, t) ==
    /\ m2 = Restrict(m1, {k \in Times : k < t})
    /\ (\A k \in DOMAIN m1 : t <= k) => m2 = EmptyMap
    /\ (\A k \in DOMAIN m1 : k < t) => m2 = m1

Assigned(m1, m2, t, v) ==
    /\ DOMAIN m2 = DOMAIN m1 \cup {t}
    /\ m2[t] = v
    /\ \A k \in DOMAIN m1 \ {t} : m2[k] = m1[k]

\* C6. Overwrite, last write wins: after set(t, v1) followed by set(t, v2)
\* on a single-channel spline, has(t) is true, the spline holds one knot at
\* t and its value is v2, and the knots at other times are unchanged by
\* both calls.
OverwriteLastWins ==
    [][/\ call'.op = "set" =>
             /\ Assigned(control_points, control_points', call'.time, call'.args.v)
             /\ Assigned(Quat_values, Quat_values', call'.time, call'.args.q)
             /\ Assigned(bool_values, bool_values', call'.time, call'.args.b)
       /\ (call.op = "set" /\ call'.op = "set" /\ call'.time = call.time) =>
             /\ Spline_has(control_points', call.time)
             /\ Quat_has(Quat_values', call.time)
             /\ bool_has(bool_values', call.time)
             /\ DOMAIN control_points' = DOMAIN control_points
             /\ DOMAIN Quat_values' = DOMAIN Quat_values
             /\ DOMAIN bool_values' = DOMAIN bool_values
             /\ control_points'[call.time] = call'.args.v
             /\ Quat_values'[call.time] = call'.args.q
             /\ bool_values'[call.time] = call'.args.b]_vars

\* set() was called at the time of one of several knots.
OverwriteWitness ==
    /\ call.op = "set"
    /\ call.time = 2
    /\ DOMAIN control_points = {1, 2, 3}
    /\ control_points[2] = call.args.v
    /\ control_points[2] # control_points[1]
    /\ Quat_values[2] = call.args.q
    /\ bool_values[2] = call.args.b

\* m2 is m1 without the knot at exactly t, if there was one.
Erased(m1, m2, t) ==
    /\ m2 = Restrict(m1, QueryTimes \ {t})
    /\ t \notin DOMAIN m1 => m2 = m1

SetThenAt ==
    [][(call.op = "set" /\ call'.op = "at" /\ call'.time = call.time) =>
          mret'.at = <<call.args.q, call.args.b>>]_vars

\* at(2) was called with knots at 1, 2 and 3 whose values differ, and
\* returned the values of the knot at 2.
SetThenAtWitness ==
    /\ call.op = "at"
    /\ call.time = 2
    /\ DOMAIN splines.head = {1, 2, 3}
    /\ DOMAIN splines.tail.head = {1, 2, 3}
    /\ splines.head[1] # splines.head[2]
    /\ splines.head[2] # splines.head[3]
    /\ splines.tail.head[1] # splines.tail.head[2]
    /\ mret.at = <<splines.head[2], splines.tail.head[2]>>

\* C9. Multi-channel keys() returns the union of the knot times of all
\* channels: a time is in the result iff some channel holds a knot at it.
KeysIsUnion ==
    call.op = "keys" =>
        /\ mret.keys \subseteq QueryTimes
        /\ \A t \in QueryTimes :
               t \in mret.keys <=> (t \in DOMAIN splines.head
                                 \/ t \in DOMAIN splines.tail.head)

\* keys() was called with several knots and returned their times.
KeysIsUnionWitness ==
    /\ call.op = "keys"
    /\ mret.keys = {1, 3}
    /\ DOMAIN splines.head = {1, 3}

\* The states of the multi-channel spline one mutating call away from s.
MultiStep(s) ==
    {Splines_set(s, t, q, b) : t \in Times, q \in Quats, b \in BOOLEAN}
        \cup {Splines_erase(s, t) : t \in QueryTimes}
        \cup {Splines_crop(s, t) : t \in QueryTimes}
        \cup {Splines_clear(s)}

RECURSIVE Reachable(_)

\* The states any sequence of mutating calls leads to from the states S.
Reachable(S) ==
    LET more == S \cup UNION {MultiStep(s) : s \in S}
    IN IF more = S THEN S ELSE Reachable(more)

BroadcastMutation ==
    [][/\ call'.op = "erase" =>
             /\ Erased(splines.head, splines'.head, call'.time)
             /\ Erased(splines.tail.head, splines'.tail.head, call'.time)
             /\ splines'.head = Quat_erase(splines.head, call'.time)
             /\ splines'.tail.head = bool_erase(splines.tail.head, call'.time)
       /\ call'.op = "clear" =>
             /\ splines'.head = EmptyMap
             /\ splines'.tail.head = EmptyMap
       /\ call'.op = "crop" =>
             /\ Cropped(splines.head, splines'.head, call'.time)
             /\ Cropped(splines.tail.head, splines'.tail.head, call'.time)
             /\ splines'.head = Quat_crop(splines.head, call'.time)
             /\ splines'.tail.head = bool_crop(splines.tail.head, call'.time)]_vars

\* crop(2) was called on the multi-channel spline and left the knot at 1 in
\* both channels.
BroadcastMutationWitness ==
    /\ call.op = "crop"
    /\ call.time = 2
    /\ DOMAIN splines.head = {1}
    /\ DOMAIN splines.tail.head = {1}

(* ---------------------------------------------------------------------- *)
(* Single knot, empty spline                                              *)
(* ---------------------------------------------------------------------- *)

\* C12. Single knot: a Spline<bool> or Spline<Quat> holding exactly one knot
\* (t0, v0) returns v0 from at(t) for every t, below, at or above t0.
SingleKnot ==
    call.op = "at" =>
        /\ Cardinality(DOMAIN bool_values) = 1 =>
               \A t0 \in DOMAIN bool_values : ret.at.b = bool_values[t0]
        /\ Cardinality(DOMAIN Quat_values) = 1 =>
               \A t0 \in DOMAIN Quat_values : ret.at.q = Quat_values[t0]

\* at(3) was called with the only knot at 2, whose values are not the
\* defaults.
SingleKnotWitness ==
    /\ call.op = "at"
    /\ DOMAIN bool_values = {2}
    /\ DOMAIN Quat_values = {2}
    /\ call.time = 3
    /\ bool_values[2] = TRUE
    /\ Quat_values[2] # QuatDefault
    /\ ret.at.b = TRUE
    /\ ret.at.q = Quat_values[2]

\* C13. Empty spline: whenever there is no knot, any() is false and at(t)
\* returns the default result for every t: false for Spline<bool>, Quat()
\* for Spline<Quat>.
EmptySpline ==
    /\ (call.op = "any" /\ control_points = EmptyMap) => ret.any.v = FALSE
    /\ (call.op = "any" /\ Quat_values = EmptyMap) => ret.any.q = FALSE
    /\ (call.op = "any" /\ bool_values = EmptyMap) => ret.any.b = FALSE
    /\ (call.op = "at" /\ Quat_values = EmptyMap) => ret.at.q = QuatDefault
    /\ (call.op = "at" /\ bool_values = EmptyMap) => ret.at.b = FALSE

\* any() was called on the splines with no knot.
EmptySplineWitness ==
    /\ call.op = "any"
    /\ control_points = EmptyMap
    /\ Quat_values = EmptyMap
    /\ bool_values = EmptyMap
    /\ ret.any = [v |-> FALSE, q |-> FALSE, b |-> FALSE]

(* ---------------------------------------------------------------------- *)
(* Idempotence                                                            *)
(* ---------------------------------------------------------------------- *)

InteriorCase(m, t) ==
    /\ Cardinality(DOMAIN m) >= 2
    /\ \E k \in DOMAIN m : k <= t
    /\ \E k \in DOMAIN m : k > t

\* The knots k2 and k1 = std::prev(k2) that at(t) then uses are there, k2 is
\* not the first knot, k1.time <= t < k2.time, and the parameter
\* (t - k1.time) / (k2.time - k1.time) has a positive denominator and lies
\* in [0, 1).
LookupDefined(m, t) ==
    LET k2 == upper_bound(m, t)
        k1 == prev(m, k2)
    IN /\ k2 \in DOMAIN m
       /\ k2 # begin(m)
       /\ k1 \in DOMAIN m
       /\ ~at_undefined(m, t)
       /\ k1 <= t
       /\ t < k2
       /\ k2 - k1 > 0
       /\ 0 <= t - k1
       /\ t - k1 < k2 - k1

\* C18. Well-defined interior lookup: whenever Spline<Quat>::at or
\* Spline<bool>::at reaches its interior case, the successor knot k2 is not
\* the first knot, its predecessor k1 exists, k1.time <= time < k2.time and
\* k2.time - k1.time > 0, so the spherical parameter never divides by zero
\* and lies in [0, 1).
InteriorLookupDefined ==
    \A t \in QueryTimes :
        /\ InteriorCase(Quat_values, t) => LookupDefined(Quat_values, t)
        /\ InteriorCase(bool_values, t) => LookupDefined(bool_values, t)

\* at() was called at the time of the first of several knots, the smallest
\* time of the interior case.
InteriorLookupWitness ==
    /\ call.op = "at"
    /\ Cardinality(DOMAIN Quat_values) >= 2
    /\ call.time = FirstKey(Quat_values)
    /\ InteriorCase(Quat_values, call.time)
    /\ InteriorCase(bool_values, call.time)
    /\ Quat_values[FirstKey(Quat_values)] # Quat_values[LastKey(Quat_values)]
    /\ ret.at.q = Quat_values[FirstKey(Quat_values)]

(* ---------------------------------------------------------------------- *)
(* erase() and the comment on Spline::erase                               *)
(* ---------------------------------------------------------------------- *)

\* The knot times of m closest to t.
Nearest(m, t) ==
    LET dist(k) == IF k < t THEN t - k ELSE k - t
    IN {k \in DOMAIN m : \A j \in DOMAIN m : dist(k) <= dist(j)}

\* C16. erase(time) removes the knot closest to the given time: on a
\* non-empty spline with no knot at exactly time, a knot whose time is
\* nearest to time is removed.
EraseClosest ==
    [][(/\ call'.op = "erase"
        /\ control_points # EmptyMap
        /\ call'.time \notin DOMAIN control_points) =>
           \E k \in Nearest(control_points, call'.time) :
               control_points' = Restrict(control_points, Times \ {k})]_vars

(* ---------------------------------------------------------------------- *)
(* The three single-channel implementations                               *)
(* ---------------------------------------------------------------------- *)

\* C19. The three single-channel implementations agree on the container
\* operations: after every step of the same sequence of set, erase, clear
\* and crop calls, with the same time arguments, Spline<T>, Spline<Quat> and
\* Spline<bool> hold the same set of knot times, and has(t), any() and
\* keys() return the same on all three.
ImplementationsAgree ==
    /\ DOMAIN control_points = DOMAIN Quat_values
    /\ DOMAIN control_points = DOMAIN bool_values
    /\ call.op = "has" =>
           /\ ret.has.v = ret.has.q
           /\ ret.has.v = ret.has.b
           /\ ret.has.v = (call.time \in DOMAIN control_points)
    /\ call.op = "any" =>
           /\ ret.any.v = ret.any.q
           /\ ret.any.v = ret.any.b
           /\ ret.any.v = (DOMAIN control_points # {})
    /\ call.op = "keys" =>
           /\ ret.keys.v = ret.keys.q
           /\ ret.keys.v = ret.keys.b
           /\ ret.keys.v = DOMAIN control_points

\* has(3) was called with knots at 1 and 3 and returned true on all three.
ImplementationsAgreeWitness ==
    /\ call.op = "has"
    /\ call.time = 3
    /\ DOMAIN control_points = {1, 3}
    /\ DOMAIN Quat_values = {1, 3}
    /\ DOMAIN bool_values = {1, 3}
    /\ ret.has = [v |-> TRUE, q |-> TRUE, b |-> TRUE]

(* ---------------------------------------------------------------------- *)
(* Queries                                                                *)
(* ---------------------------------------------------------------------- *)

\* C15. Queries do not mutate: at(t), has(t), any() and keys(), on the
\* single-channel splines and on the multi-channel spline, leave the knots
\* of every channel unchanged, and at(t) repeated with no mutation in
\* between returns the same result.
QueriesDoNotMutate ==
    [][/\ call'.op \in {"at", "has", "any", "keys"} =>
             /\ control_points' = control_points
             /\ Quat_values' = Quat_values
             /\ bool_values' = bool_values
             /\ splines'.head = splines.head
             /\ splines'.tail.head = splines.tail.head
       /\ (call.op = "at" /\ call'.op = "at" /\ call'.time = call.time) =>
             /\ ret'.at = ret.at
             /\ mret'.at = mret.at]_vars

\* at(2) was called between the knots at 1 and 3, whose values differ, on
\* the single-channel splines and on the multi-channel spline.
QueriesDoNotMutateWitness ==
    /\ call.op = "at"
    /\ call.time = 2
    /\ DOMAIN Quat_values = {1, 3}
    /\ DOMAIN bool_values = {1, 3}
    /\ DOMAIN splines.head = {1, 3}
    /\ DOMAIN splines.tail.head = {1, 3}
    /\ bool_values[1] # bool_values[3]
    /\ splines.head[1] # splines.head[3]
    /\ ret.at.b = bool_values[1]
    /\ mret.at = <<slerp(splines.head[1], splines.head[3], 1, 2),
                   splines.tail.head[1]>>

(* ---------------------------------------------------------------------- *)
(* The generic cubic policy                                               *)
(* ---------------------------------------------------------------------- *)

\* The knots cp are three, at equal spacing in time, with collinear values.
ThreeCollinear(cp) ==
    /\ Cardinality(DOMAIN cp) = 3
    /\ \E t1 \in DOMAIN cp :
           /\ FirstKey(cp) < t1
           /\ t1 < LastKey(cp)
           /\ t1 - FirstKey(cp) = LastKey(cp) - t1
           /\ cp[t1] - cp[FirstKey(cp)] = cp[LastKey(cp)] - cp[t1]

\* C17. Generic cubic policy: with three knots at equal time spacing and
\* collinear values, at(t) at each knot's own time returns exactly that
\* knot's value, and the results at increasing times never decrease for
\* non-decreasing values and never increase for non-increasing values.
CubicThroughKnots ==
    (call.op = "at" /\ ThreeCollinear(control_points)) =>
        /\ call.time \in DOMAIN control_points =>
               RatEq(ret.at.v, Rat(control_points[call.time], 1))
        /\ \A k \in DOMAIN control_points :
               RatEq(Spline_at(control_points, k, ret.at.rule),
                     Rat(control_points[k], 1))
        /\ \A t \in CubicQueryTimes :
               t >= call.time =>
                   /\ (control_points[FirstKey(control_points)]
                           <= control_points[LastKey(control_points)]) =>
                          RatLeq(ret.at.v,
                                 Spline_at(control_points, t, ret.at.rule))
                   /\ (control_points[FirstKey(control_points)]
                           >= control_points[LastKey(control_points)]) =>
                          RatLeq(Spline_at(control_points, t, ret.at.rule),
                                 ret.at.v)

\* at() was called one past the middle knot of 0 -> 0, Step -> 2,
\* 2 * Step -> 4, with zero tangents at the ends, and returned a value
\* strictly between 2 and 4.
CubicThroughKnotsWitness ==
    /\ call.op = "at"
    /\ DOMAIN control_points = {0, Step, 2 * Step}
    /\ control_points[0] = 0
    /\ control_points[Step] = 2
    /\ control_points[2 * Step] = 4
    /\ call.time = Step + 1
    /\ ret.at.rule = "zero"
    /\ ~RatLeq(ret.at.v, Rat(2, 1))
    /\ ~RatLeq(Rat(4, 1), ret.at.v)

====
